---- MODULE Spec2Model ----
(***************************************************************************)
(* Turing Smart Screen tray: a model of                                    *)
(*   - main()'s single-instance guard and the tray's service handlers      *)
(*     (src/tray/main.py, src/tray/tray_app.py, src/tray/service_manager.py)*)
(*   - TrayConfig, the JSON preference record (src/tray/config_manager.py) *)
(*   - ScreenConfig, the regex edits of config.yaml and the list of themes *)
(*     (src/tray/config_manager.py)                                        *)
(*   - I18n, the translation tables (src/tray/i18n/__init__.py)            *)
(* The specifications share the variables: Spec (the startups of several   *)
(* tray processes), SpecTray (one tray and its menu), SpecTrayConfig,      *)
(* SpecScreenConfig, SpecThemes and SpecI18n.                              *)
(***************************************************************************)
EXTENDS Integers, Sequences, FiniteSets, TLC

VARIABLES
    \* ---- main.py / tray_app.py / service_manager.py
    pc,          \* per process: where main() stands
    sockPath,    \* the socket file "turing-smart-screen-tray": 0 = absent, else the process whose server bound it
    listening,   \* processes whose QLocalServer is listening
    tray,        \* processes whose TuringTray is shown
    printed,     \* processes that printed "already running"
    exitCode,    \* per process: return value of main(), -1 while none
    systemctl,   \* ServiceManager._systemctl: TRUE when shutil.which found it
    svc,         \* the turing-screen unit: [active, enabled]
    handler,     \* the handler that ran last
    calls,       \* the ServiceManager calls that handler made, in order
    \* ---- TrayConfig
    cfgFile,     \* tray.json
    data,        \* TrayConfig._data
    tcStatus,    \* "none" | "ok" | "raised": how the last TrayConfig call ended
    tcOp,        \* the last TrayConfig call
    \* ---- ScreenConfig
    yaml,        \* config.yaml: [exists, text]
    scOp,        \* the last ScreenConfig call: its name, argument, result, and whether it read and wrote the file
    scPrev,      \* config.yaml before the last ScreenConfig call
    themesDir,   \* res/themes: [exists, entries], entries a function from names to what is there
    thOp,        \* the last get_available_themes call: its argument and the list it returned
    \* ---- I18n
    langFiles,   \* the <code>.json files next to i18n/__init__.py
    i18n,        \* the I18n object: [live, lang, translations, fallback]
    i18nOp       \* the last I18n call

vars == <<pc, sockPath, listening, tray, printed, exitCode, systemctl, svc,
          handler, calls, cfgFile, data, tcStatus, tcOp, yaml, scOp, scPrev,
          themesDir, thOp, langFiles, i18n, i18nOp>>

mainVars == <<pc, sockPath, listening, tray, printed, exitCode, systemctl, svc,
              handler, calls>>
trayCfgVars == <<cfgFile, data, tcStatus, tcOp>>
screenVars == <<yaml, scOp, scPrev>>
themeVars == <<themesDir, thOp>>
i18nVars == <<langFiles, i18n, i18nOp>>

----------------------------------------------------------------------------
\* Bounds

\* number of tray processes that may be started concurrently
NumProcs == 2

Procs == 1..NumProcs

----------------------------------------------------------------------------
\* service_manager.py

SERVICE_NAME == "turing-screen"

LifecycleVerbs == {"start", "stop", "restart", "enable", "disable"}
QueryVerbs == {"is-active", "is-enabled"}

\* What running `systemctl --user <verb> turing-screen` can do: the process
\* exits with a code, is killed at the timeout, or cannot be spawned.
\* `applied` says whether systemd carried the verb out.
Outcomes(verb, s) ==
    IF verb \in LifecycleVerbs
    THEN { [kind |-> "exit", rc |-> 0, applied |-> TRUE],
           [kind |-> "exit", rc |-> 1, applied |-> FALSE],
           [kind |-> "timeout", rc |-> -1, applied |-> TRUE],
           [kind |-> "timeout", rc |-> -1, applied |-> FALSE],
           [kind |-> "oserror", rc |-> -1, applied |-> FALSE] }
    ELSE { [kind |-> "exit",
            rc |-> IF (verb = "is-active" /\ s.active) \/ (verb = "is-enabled" /\ s.enabled)
                   THEN 0 ELSE 3,
            applied |-> FALSE],
           [kind |-> "timeout", rc |-> -1, applied |-> FALSE],
           [kind |-> "oserror", rc |-> -1, applied |-> FALSE] }

\* the unit after systemd carried `verb` out
Systemd(verb, s) ==
    CASE verb = "start"   -> [s EXCEPT !.active = TRUE]
      [] verb = "stop"    -> [s EXCEPT !.active = FALSE]
      [] verb = "restart" -> [s EXCEPT !.active = TRUE]
      [] verb = "enable"  -> [s EXCEPT !.enabled = TRUE]
      [] verb = "disable" -> [s EXCEPT !.enabled = FALSE]
      [] OTHER            -> s

\* ServiceManager._run returning True on a timeout (a plausible slip)
RunTimeoutTrue(found, out) ==
    IF ~found
    THEN [ok |-> FALSE, ncmd |-> 0, raised |-> FALSE]
    ELSE CASE out.kind = "exit"    -> [ok |-> out.rc = 0, ncmd |-> 1, raised |-> FALSE]
           [] out.kind = "timeout" -> [ok |-> TRUE, ncmd |-> 1, raised |-> FALSE]
           [] OTHER                -> [ok |-> FALSE, ncmd |-> 0, raised |-> FALSE]

\* ServiceManager._run: (success, _) and how many commands it ran
Run(found, out) ==
    IF ~found
    THEN [ok |-> FALSE, ncmd |-> 0, raised |-> FALSE]
    ELSE CASE out.kind = "exit"    -> [ok |-> out.rc = 0, ncmd |-> 1, raised |-> FALSE]
           [] out.kind = "timeout" -> [ok |-> FALSE, ncmd |-> 1, raised |-> FALSE]
           [] OTHER                -> [ok |-> FALSE, ncmd |-> 0, raised |-> FALSE]

\* ServiceManager.start/stop/restart/is_active/enable/disable/is_enabled:
\* one _run(verb, SERVICE_NAME); the record of the call and the unit after it
ServiceCall(verb, found, s, out) ==
    LET r == Run(found, out)
        ran == r.ncmd = 1
    IN  [rec |-> [verb |-> verb, unit |-> SERVICE_NAME, ncmd |-> r.ncmd,
                  kind |-> IF found THEN out.kind ELSE "notfound",
                  rc |-> IF ran THEN out.rc ELSE -1,
                  ret |-> r.ok, raised |-> r.raised],
         svc |-> IF ran /\ out.applied THEN Systemd(verb, s) ELSE s]

----------------------------------------------------------------------------
\* tray_app.py: the handlers, each with the ServiceManager calls it makes

\* _update_status: one is_active()
UpdateStatus(found, s, o) == ServiceCall("is-active", found, s, o)

\* start_display / stop_display / restart_display: the verb, then _update_status
Display(verb, found, s, o1, o2) ==
    LET c1 == ServiceCall(verb, found, s, o1)
        c2 == UpdateStatus(found, c1.svc, o2)
    IN  [svc |-> c2.svc, calls |-> <<c1.rec, c2.rec>>]

\* toggle_autostart: enable() when the action is now checked, else disable()
ToggleAutostart(checked, found, s, o) ==
    LET c == ServiceCall(IF checked THEN "enable" ELSE "disable", found, s, o)
    IN  [svc |-> c.svc, calls |-> <<c.rec>>]

\* QSystemTrayIcon.ActivationReason
ActivationReasons == {"Unknown", "Context", "DoubleClick", "Trigger", "MiddleClick"}

\* _on_activated that starts an active service and stops an inactive one
OnActivatedInverted(reason, found, s, o0, o1, o2) ==
    IF reason = "MiddleClick"
    THEN LET c0 == ServiceCall("is-active", found, s, o0)
             r == Display(IF c0.rec.ret THEN "start" ELSE "stop", found, c0.svc, o1, o2)
         IN  [svc |-> r.svc, calls |-> <<c0.rec>> \o r.calls]
    ELSE [svc |-> s, calls |-> << >>]

\* _on_activated: on a middle click, is_active(), then stop_display or
\* start_display; nothing on any other reason
OnActivated(reason, found, s, o0, o1, o2) ==
    IF reason = "MiddleClick"
    THEN LET c0 == ServiceCall("is-active", found, s, o0)
             r == Display(IF c0.rec.ret THEN "stop" ELSE "start", found, c0.svc, o1, o2)
         IN  [svc |-> r.svc, calls |-> <<c0.rec>> \o r.calls]
    ELSE [svc |-> s, calls |-> << >>]

----------------------------------------------------------------------------
\* main.py: one process of the tray, statement by statement

\* socket.connectToServer(...); socket.waitForConnected(200): a connection is
\* made when the socket file is there and the server that bound it listens
Connected == sockPath # 0 /\ sockPath \in listening

\* a new process enters main() and builds its QApplication
StartMain(p) ==
    /\ pc[p] \in {"idle", "exited"}
    /\ pc' = [pc EXCEPT ![p] = "connect"]
    /\ printed' = printed \ {p}
    /\ exitCode' = [exitCode EXCEPT ![p] = -1]
    /\ UNCHANGED <<trayCfgVars, screenVars, themeVars, i18nVars, sockPath, listening, tray, systemctl, svc, handler, calls>>

\* another instance answers: print, close the socket, return 0
AlreadyRunning(p) ==
    /\ pc[p] = "connect"
    /\ Connected
    /\ printed' = printed \cup {p}
    /\ pc' = [pc EXCEPT ![p] = "exited"]
    /\ exitCode' = [exitCode EXCEPT ![p] = 0]
    /\ UNCHANGED <<trayCfgVars, screenVars, themeVars, i18nVars, sockPath, listening, tray, systemctl, svc, handler, calls>>

\* nobody answers: socket.close() and go on to become the instance
NotRunning(p) ==
    /\ pc[p] = "connect"
    /\ ~Connected
    /\ pc' = [pc EXCEPT ![p] = "remove"]
    /\ UNCHANGED <<trayCfgVars, screenVars, themeVars, i18nVars, sockPath, listening, tray, printed, exitCode, systemctl, svc,
                   handler, calls>>

\* server.removeServer(name): the socket file is deleted, whoever bound it
RemoveServer(p) ==
    /\ pc[p] = "remove"
    /\ sockPath' = 0
    /\ pc' = [pc EXCEPT ![p] = "listen"]
    /\ UNCHANGED <<trayCfgVars, screenVars, themeVars, i18nVars, listening, tray, printed, exitCode, systemctl, svc, handler, calls>>

\* server.listen(name): binds the file when it is absent; when it is there the
\* call fails, and main() does not look at its result
Listen(p) ==
    /\ pc[p] = "listen"
    /\ IF sockPath = 0
       THEN sockPath' = p /\ listening' = listening \cup {p}
       ELSE UNCHANGED <<sockPath, listening>>
    /\ pc' = [pc EXCEPT ![p] = "tray"]
    /\ UNCHANGED <<trayCfgVars, screenVars, themeVars, i18nVars, tray, printed, exitCode, systemctl, svc, handler, calls>>

\* tray = TuringTray(app); tray.show(): __init__ builds the menu (is_enabled)
\* and calls _update_status (is_active)
CreateTray(p) ==
    /\ pc[p] = "tray"
    /\ \E o1 \in Outcomes("is-enabled", svc) :
         LET c1 == ServiceCall("is-enabled", systemctl, svc, o1)
         IN  \E o2 \in Outcomes("is-active", c1.svc) :
               LET c2 == UpdateStatus(systemctl, c1.svc, o2)
               IN  /\ svc' = c2.svc
                   /\ calls' = <<c1.rec, c2.rec>>
    /\ handler' = "__init__"
    /\ tray' = tray \cup {p}
    /\ pc' = [pc EXCEPT ![p] = "running"]
    /\ UNCHANGED <<trayCfgVars, screenVars, themeVars, i18nVars, sockPath, listening, printed, exitCode, systemctl>>

\* the menu's Start / Stop / Restart entries
DisplayAction(p, verb) ==
    /\ pc[p] = "running"
    /\ \E o1 \in Outcomes(verb, svc) :
         \E o2 \in Outcomes("is-active", ServiceCall(verb, systemctl, svc, o1).svc) :
            LET r == Display(verb, systemctl, svc, o1, o2)
            IN  svc' = r.svc /\ calls' = r.calls
    /\ handler' = verb \o "_display"
    /\ UNCHANGED <<trayCfgVars, screenVars, themeVars, i18nVars, pc, sockPath, listening, tray, printed, exitCode, systemctl>>

start_display(p) == DisplayAction(p, "start")
stop_display(p) == DisplayAction(p, "stop")
restart_display(p) == DisplayAction(p, "restart")

\* the tray icon is activated (clicked) for some reason
on_activated(p, reason) ==
    /\ pc[p] = "running"
    /\ \E o0 \in Outcomes("is-active", svc) :
         LET c0 == ServiceCall("is-active", systemctl, svc, o0)
             verb == IF c0.rec.ret THEN "stop" ELSE "start"
         IN  \E o1 \in Outcomes(verb, c0.svc) :
               \E o2 \in Outcomes("is-active", ServiceCall(verb, systemctl, c0.svc, o1).svc) :
                  LET r == OnActivated(reason, systemctl, svc, o0, o1, o2)
                  IN  svc' = r.svc /\ calls' = r.calls
    /\ handler' = "_on_activated(" \o reason \o ")"
    /\ UNCHANGED <<trayCfgVars, screenVars, themeVars, i18nVars, pc, sockPath, listening, tray, printed, exitCode, systemctl>>

\* the Autostart entry
toggle_autostart(p) ==
    /\ pc[p] = "running"
    /\ \E checked \in BOOLEAN :
         \E o \in Outcomes(IF checked THEN "enable" ELSE "disable", svc) :
            LET r == ToggleAutostart(checked, systemctl, svc, o)
            IN  svc' = r.svc /\ calls' = r.calls
    /\ handler' = "toggle_autostart"
    /\ UNCHANGED <<trayCfgVars, screenVars, themeVars, i18nVars, pc, sockPath, listening, tray, printed, exitCode, systemctl>>

\* the poll timer
update_status(p) ==
    /\ pc[p] = "running"
    /\ \E o \in Outcomes("is-active", svc) :
         LET c == UpdateStatus(systemctl, svc, o)
         IN  svc' = c.svc /\ calls' = <<c.rec>>
    /\ handler' = "_update_status"
    /\ UNCHANGED <<trayCfgVars, screenVars, themeVars, i18nVars, pc, sockPath, listening, tray, printed, exitCode, systemctl>>

\* quit_app that stops the display first (what its docstring rules out)
quit_app_stops(p) ==
    /\ pc[p] = "running"
    /\ \E o \in Outcomes("stop", svc) :
         LET c == ServiceCall("stop", systemctl, svc, o)
         IN  svc' = c.svc /\ calls' = <<c.rec>>
    /\ tray' = tray \ {p}
    /\ handler' = "quit_app"
    /\ pc' = [pc EXCEPT ![p] = "closing"]
    /\ UNCHANGED <<trayCfgVars, screenVars, themeVars, i18nVars, sockPath, listening, printed, exitCode, systemctl>>

\* quit_app: self.hide(); QApplication.quit(), so app.exec_() returns
quit_app(p) ==
    /\ pc[p] = "running"
    /\ tray' = tray \ {p}
    /\ handler' = "quit_app"
    /\ calls' = << >>
    /\ pc' = [pc EXCEPT ![p] = "closing"]
    /\ UNCHANGED <<trayCfgVars, screenVars, themeVars, i18nVars, sockPath, listening, printed, exitCode, systemctl, svc>>

\* server.close(); return ret: a listening server closes and deletes the
\* socket file of its name
ServerClose(p) ==
    /\ pc[p] = "closing"
    /\ IF p \in listening
       THEN sockPath' = 0 /\ listening' = listening \ {p}
       ELSE UNCHANGED <<sockPath, listening>>
    /\ pc' = [pc EXCEPT ![p] = "exited"]
    /\ exitCode' = [exitCode EXCEPT ![p] = 0]
    /\ UNCHANGED <<trayCfgVars, screenVars, themeVars, i18nVars, tray, printed, systemctl, svc, handler, calls>>

\* SIGINT with SIG_DFL: the process dies where it stands; its socket file stays
Sigint(p) ==
    /\ pc[p] \notin {"idle", "exited"}
    /\ pc' = [pc EXCEPT ![p] = "exited"]
    /\ exitCode' = [exitCode EXCEPT ![p] = 130]
    /\ tray' = tray \ {p}
    /\ listening' = listening \ {p}
    /\ UNCHANGED <<trayCfgVars, screenVars, themeVars, i18nVars, sockPath, printed, systemctl, svc, handler, calls>>

----------------------------------------------------------------------------
\* config_manager.py: TrayConfig

\* Python values a preference holds: str, bool, int, None, list
PyStr(x) == [t |-> "str", s |-> x, n |-> 0]
PyBool(b) == [t |-> "bool", s |-> "", n |-> IF b THEN 1 ELSE 0]
PyInt(i) == [t |-> "int", s |-> "", n |-> i]
PyNone == [t |-> "NoneType", s |-> "", n |-> 0]
PyList == [t |-> "list", s |-> "", n |-> 0]

\* JSON values as they stand in the file
JString(x) == [j |-> "string", s |-> x, n |-> 0]
JNumber(i) == [j |-> "number", s |-> "", n |-> i]
JTrue == [j |-> "true", s |-> "", n |-> 0]
JFalse == [j |-> "false", s |-> "", n |-> 0]
JNull == [j |-> "null", s |-> "", n |-> 0]
JEmptyArray == [j |-> "array", s |-> "", n |-> 0]

\* json.dump of one value
ToJson(v) ==
    CASE v.t = "str"      -> JString(v.s)
      [] v.t = "bool"     -> IF v.n = 1 THEN JTrue ELSE JFalse
      [] v.t = "int"      -> JNumber(v.n)
      [] v.t = "NoneType" -> JNull
      [] OTHER            -> JEmptyArray

\* json.load of one value
FromJson(x) ==
    CASE x.j = "string" -> PyStr(x.s)
      [] x.j = "true"   -> PyBool(TRUE)
      [] x.j = "false"  -> PyBool(FALSE)
      [] x.j = "number" -> PyInt(x.n)
      [] x.j = "null"   -> PyNone
      [] OTHER          -> PyList

DEFAULTS ==
    [k \in {"language", "show_notifications", "check_updates", "poll_interval"} |->
        CASE k = "language"           -> PyStr("pt_BR")
          [] k = "show_notifications" -> PyBool(TRUE)
          [] k = "check_updates"      -> PyBool(TRUE)
          [] OTHER                    -> PyInt(5)]

\* no TrayConfig object: a record without keys
NoData == [k \in {} |-> PyNone]

\* tray.json: absent; there but not openable (OSError); not UTF-8; text that is
\* no JSON; or a JSON document, whose top is an object (members), an array
\* (items) or a scalar
FileOf(kind, top, members, items) ==
    [kind |-> kind, top |-> top, members |-> members, items |-> items]
MissingFile == FileOf("missing", JNull, NoData, << >>)
UnreadableFile == FileOf("unreadable", JNull, NoData, << >>)
NotUtf8File == FileOf("notutf8", JNull, NoData, << >>)
GarbageFile == FileOf("garbage", JNull, NoData, << >>)
ObjectFile(members) == FileOf("json", [j |-> "object", s |-> "", n |-> 0], members, << >>)
ArrayFile(items) == FileOf("json", JEmptyArray, NoData, items)
ScalarFile(x) == FileOf("json", x, NoData, << >>)

\* dict.update(d, e)
Update(d, e) ==
    [k \in DOMAIN d \cup DOMAIN e |-> IF k \in DOMAIN e THEN e[k] ELSE d[k]]

\* d[k] = v
SetItem(d, k, v) ==
    [x \in DOMAIN d \cup {k} |-> IF x = k THEN v ELSE d[x]]

\* dict.update with a list: every item has to be a pair [key, value]; the
\* pairs before a bad item are taken, then TypeError is raised
RECURSIVE UpdateFromItems(_, _)
UpdateFromItems(d, items) ==
    IF items = << >> THEN [raised |-> FALSE, data |-> d]
    ELSE IF Head(items).pair
         THEN UpdateFromItems(SetItem(d, Head(items).k, FromJson(Head(items).v)), Tail(items))
         ELSE [raised |-> TRUE, data |-> d]

\* __init__ and _load with the defaults dropped when a file is read
LoadReplaces(f) ==
    CASE f.kind = "missing"    -> [raised |-> FALSE, data |-> DEFAULTS]
      [] f.kind = "unreadable" -> [raised |-> FALSE, data |-> DEFAULTS]
      [] f.kind = "garbage"    -> [raised |-> FALSE, data |-> DEFAULTS]
      [] f.kind = "notutf8"    -> [raised |-> TRUE, data |-> DEFAULTS]
      [] OTHER ->
           CASE f.top.j = "object" ->
                  [raised |-> FALSE, data |-> [k \in DOMAIN f.members |-> FromJson(f.members[k])]]
             [] f.top.j = "array"  -> UpdateFromItems(NoData, f.items)
             [] f.top.j = "string" -> [raised |-> f.top.s # "", data |-> DEFAULTS]
             [] OTHER              -> [raised |-> TRUE, data |-> DEFAULTS]

\* TrayConfig.__init__ and _load: the record starts as DEFAULTS; a file that
\* is there is opened, parsed and merged in with dict.update. OSError and
\* JSONDecodeError are caught; what dict.update raises on a document that is
\* no object, and the UnicodeDecodeError of a file that is not UTF-8, are not.
Load(f) ==
    CASE f.kind = "missing"    -> [raised |-> FALSE, data |-> DEFAULTS]
      [] f.kind = "unreadable" -> [raised |-> FALSE, data |-> DEFAULTS]
      [] f.kind = "garbage"    -> [raised |-> FALSE, data |-> DEFAULTS]
      [] f.kind = "notutf8"    -> [raised |-> TRUE, data |-> DEFAULTS]
      [] OTHER ->
           CASE f.top.j = "object" ->
                  [raised |-> FALSE,
                   data |-> Update(DEFAULTS, [k \in DOMAIN f.members |-> FromJson(f.members[k])])]
             [] f.top.j = "array"  -> UpdateFromItems(DEFAULTS, f.items)
             [] f.top.j = "string" -> [raised |-> f.top.s # "", data |-> DEFAULTS]
             [] OTHER              -> [raised |-> TRUE, data |-> DEFAULTS]

\* json.dump(self._data, fh, ...)
Dump(d) == ObjectFile([k \in DOMAIN d |-> ToJson(d[k])])

\* save() that leaves the file as it was
SaveNoWrite(d, f, out) == f

\* TrayConfig.save: mkdir, open for writing, json.dump. `out` is what the file
\* system does: "ok"; "noopen" (mkdir or open raises OSError, the file is
\* untouched); "nowrite" (the write raises after open truncated the file)
Save(d, f, out) ==
    CASE out = "ok"      -> Dump(d)
      [] out = "noopen"  -> f
      [] OTHER           -> GarbageFile

SaveOutcomes == {"ok", "noopen", "nowrite"}

\* config_manager.py: ScreenConfig. config.yaml is text: a sequence of
\* characters, the keys the patterns name standing as one character each.

DIGITS == {"0", "1", "2", "3", "4", "5", "6", "7", "8", "9"}
DigitChars == <<"0", "1", "2", "3", "4", "5", "6", "7", "8", "9">>
\* \s
WS == {" ", "\t", "\n"}
QUOTES == {"\"", "'"}
Alphabet ==
    DIGITS \cup WS \cup QUOTES
    \cup {"DISPLAY_ORIENTATION", "THEME", "BRIGHTNESS", ":", "#", "-", "a", "b", "c"}
    \cup {"REVISION", "DISPLAY_SIZE", "BACKGROUND", "WIDTH", "HEIGHT", ".", "_",
          "A", "B", "C", "D", "Z", "WEACT_A", "WEACT_B", "SIMU"}
\* [^\"'\n]
NotQuoteNl == Alphabet \ (QUOTES \cup {"\n"})

\* the items of a pattern
Bol == [k |-> "bol", cs |-> {}, min |-> 0, many |-> FALSE]    \* ^ under re.MULTILINE
Bos == [k |-> "bos", cs |-> {}, min |-> 0, many |-> FALSE]    \* ^ without it
Eol == [k |-> "eol", cs |-> {}, min |-> 0, many |-> FALSE]    \* $ under re.MULTILINE
Eos == [k |-> "eos", cs |-> {}, min |-> 0, many |-> FALSE]    \* $ without it
Lit(c) == [k |-> "set", cs |-> {c}, min |-> 1, many |-> FALSE]
Opt(S) == [k |-> "set", cs |-> S, min |-> 0, many |-> FALSE]
Star(S) == [k |-> "set", cs |-> S, min |-> 0, many |-> TRUE]
Plus(S) == [k |-> "set", cs |-> S, min |-> 1, many |-> TRUE]

NoMatch == [ok |-> FALSE, ends |-> << >>]

\* how many characters of txt from pos on are in cs (one at most unless many)
RECURSIVE RunLength(_, _, _, _)
RunLength(txt, pos, cs, many) ==
    IF pos > Len(txt) \/ txt[pos] \notin cs THEN 0
    ELSE IF ~many THEN 1
    ELSE 1 + RunLength(txt, pos + 1, cs, many)

\* re's backtracking matcher: items i.. of the pattern matched at pos. Every
\* quantifier is greedy: the longest run is tried first, then shorter ones.
\* `ends` holds, for each of the items i.., the position after it.
RECURSIVE MatchAt(_, _, _, _), TryRun(_, _, _, _, _)
MatchAt(re, txt, i, pos) ==
    IF i > Len(re) THEN [ok |-> TRUE, ends |-> << >>]
    ELSE LET it == re[i]
             here ==
                CASE it.k = "bol" -> pos = 1 \/ txt[pos - 1] = "\n"
                  [] it.k = "bos" -> pos = 1
                  [] it.k = "eol" -> pos = Len(txt) + 1 \/ txt[pos] = "\n"
                  [] it.k = "eos" -> \/ pos = Len(txt) + 1
                                     \/ (pos = Len(txt) /\ txt[pos] = "\n")
                  [] OTHER -> FALSE
         IN  IF it.k = "set"
             THEN TryRun(re, txt, i, pos, RunLength(txt, pos, it.cs, it.many))
             ELSE IF here
                  THEN LET r == MatchAt(re, txt, i + 1, pos)
                       IN  IF r.ok THEN [ok |-> TRUE, ends |-> <<pos>> \o r.ends]
                           ELSE NoMatch
                  ELSE NoMatch
TryRun(re, txt, i, pos, n) ==
    IF n < re[i].min THEN NoMatch
    ELSE LET r == MatchAt(re, txt, i + 1, pos + n)
         IN  IF r.ok THEN [ok |-> TRUE, ends |-> <<pos + n>> \o r.ends]
             ELSE TryRun(re, txt, i, pos, n - 1)

NotFound == [found |-> FALSE, start |-> 0, ends |-> << >>]

\* re.search from pos on: the leftmost position the pattern matches at
RECURSIVE Search(_, _, _)
Search(re, txt, pos) ==
    IF pos > Len(txt) + 1 THEN NotFound
    ELSE LET m == MatchAt(re, txt, 1, pos)
         IN  IF m.ok THEN [found |-> TRUE, start |-> pos, ends |-> m.ends]
             ELSE Search(re, txt, pos + 1)

\* re.subn(pattern, r"\g<1>" + repl, txt): every match, left to right and
\* not overlapping, becomes its group 1 (the items up to g1) followed by repl
RECURSIVE Subn(_, _, _, _, _)
Subn(re, g1, repl, txt, pos) ==
    LET m == Search(re, txt, pos)
    IN  IF ~m.found THEN [text |-> SubSeq(txt, pos, Len(txt)), count |-> 0]
        ELSE LET stop == m.ends[Len(re)]
                 rest == IF stop > m.start THEN Subn(re, g1, repl, txt, stop)
                         ELSE [text |-> SubSeq(txt, stop, Len(txt)), count |-> 0]
             IN  [text |-> SubSeq(txt, pos, m.start - 1)
                           \o SubSeq(txt, m.start, m.ends[g1] - 1)
                           \o repl \o rest.text,
                  count |-> rest.count + 1]

\* str.strip()
RECURSIVE Strip(_)
Strip(q) ==
    IF q = << >> THEN q
    ELSE IF Head(q) \in WS THEN Strip(Tail(q))
    ELSE IF q[Len(q)] \in WS THEN Strip(SubSeq(q, 1, Len(q) - 1))
    ELSE q

DigitVal(c) == CHOOSE d \in 0..9 : DigitChars[d + 1] = c

\* int() of a run of digits
RECURSIVE ToInt(_)
ToInt(q) ==
    IF q = << >> THEN 0
    ELSE 10 * ToInt(SubSeq(q, 1, Len(q) - 1)) + DigitVal(q[Len(q)])

\* str() of an int
RECURSIVE IntStr(_)
IntStr(n) ==
    IF n < 0 THEN <<"-">> \o IntStr(-n)
    ELSE IF n < 10 THEN <<DigitChars[n + 1]>>
    ELSE IntStr(n \div 10) \o <<DigitChars[(n % 10) + 1]>>

\* ScreenConfig._read: the text of the file, "" when it is absent
Read(f) == IF f.exists THEN f.text ELSE << >>

\* ScreenConfig._write
Write(content) == [exists |-> TRUE, text |-> content]

\* r"^(\s*DISPLAY_ORIENTATION\s*:\s*)\d+"; group 1 ends with item 6
ORIENT_PATTERN ==
    <<Bol, Star(WS), Lit("DISPLAY_ORIENTATION"), Star(WS), Lit(":"), Star(WS), Plus(DIGITS)>>

\* the same pattern compiled without re.MULTILINE
OrientPatternNoMultiline ==
    <<Bos, Star(WS), Lit("DISPLAY_ORIENTATION"), Star(WS), Lit(":"), Star(WS), Plus(DIGITS)>>

\* r"^(\s*THEME\s*:\s*)[\"']?[^\"'\n]+[\"']?\s*$"; group 1 ends with item 6.
\* get_current_theme's pattern is the same with its group around item 8.
THEME_PATTERN ==
    <<Bol, Star(WS), Lit("THEME"), Star(WS), Lit(":"), Star(WS),
      Opt(QUOTES), Plus(NotQuoteNl), Opt(QUOTES), Star(WS), Eol>>

\* ScreenConfig.get_orientation: the digits of the first match, as an int
get_orientation(f) ==
    LET content == Read(f)
        m == Search(ORIENT_PATTERN, content, 1)
    IN  IF m.found
        THEN LET group0 == SubSeq(content, m.start, m.ends[Len(ORIENT_PATTERN)] - 1)
                 d == Search(<<Plus(DIGITS), Eos>>, group0, 1)
             IN  IF d.found THEN ToInt(SubSeq(group0, d.start, d.ends[1] - 1)) ELSE 0
        ELSE 0

\* set_orientation whose pattern lacks re.MULTILINE
SetOrientationNoMultiline(f, value) ==
    IF value \notin {0, 1, 2, 3}
    THEN [ret |-> FALSE, read |-> FALSE, wrote |-> FALSE, file |-> f]
    ELSE LET r == Subn(OrientPatternNoMultiline, 6, IntStr(value), Read(f), 1)
         IN  IF r.count > 0
             THEN [ret |-> TRUE, read |-> TRUE, wrote |-> TRUE, file |-> Write(r.text)]
             ELSE [ret |-> FALSE, read |-> TRUE, wrote |-> FALSE, file |-> f]

\* set_orientation that takes any value below 4
SetOrientationNoLowerBound(f, value) ==
    IF value > 3
    THEN [ret |-> FALSE, read |-> FALSE, wrote |-> FALSE, file |-> f]
    ELSE LET r == Subn(ORIENT_PATTERN, 6, IntStr(value), Read(f), 1)
         IN  IF r.count > 0
             THEN [ret |-> TRUE, read |-> TRUE, wrote |-> TRUE, file |-> Write(r.text)]
             ELSE [ret |-> FALSE, read |-> TRUE, wrote |-> FALSE, file |-> f]

\* ScreenConfig.set_orientation
SetOrientation(f, value) ==
    IF value \notin {0, 1, 2, 3}
    THEN [ret |-> FALSE, read |-> FALSE, wrote |-> FALSE, file |-> f]
    ELSE LET r == Subn(ORIENT_PATTERN, 6, IntStr(value), Read(f), 1)
         IN  IF r.count > 0
             THEN [ret |-> TRUE, read |-> TRUE, wrote |-> TRUE, file |-> Write(r.text)]
             ELSE [ret |-> FALSE, read |-> TRUE, wrote |-> FALSE, file |-> f]

\* ScreenConfig.get_current_theme: [some, name]; some is FALSE for None
get_current_theme(f) ==
    LET content == Read(f)
        m == Search(THEME_PATTERN, content, 1)
    IN  IF m.found
        THEN [some |-> TRUE, name |-> Strip(SubSeq(content, m.ends[7], m.ends[8] - 1))]
        ELSE [some |-> FALSE, name |-> << >>]

\* ScreenConfig.set_theme
SetTheme(f, theme_name) ==
    LET r == Subn(THEME_PATTERN, 6, theme_name, Read(f), 1)
    IN  IF r.count > 0
        THEN [ret |-> TRUE, read |-> TRUE, wrote |-> TRUE, file |-> Write(r.text)]
        ELSE [ret |-> FALSE, read |-> TRUE, wrote |-> FALSE, file |-> f]

\* ---- display detection and themes

\* Optional[str]: None, or a string
None == [some |-> FALSE, v |-> << >>]
Some(q) == [some |-> TRUE, v |-> q]

\* ScreenConfig.REVISION_TO_SIZE.get(revision): None for SIMU and for a
\* revision the table does not hold
REVISION_TO_SIZE(revision) ==
    CASE revision \in {<<"A">>, <<"B">>, <<"D">>, <<"WEACT_A">>} -> Some(<<"3", ".", "5">>)
      [] revision = <<"C">>       -> Some(<<"5">>)
      [] revision = <<"WEACT_B">> -> Some(<<"0", ".", "9", "6">>)
      [] OTHER                    -> None

\* ScreenConfig.RESOLUTION_TO_SIZE.get((w, h))
RESOLUTION_TO_SIZE(w, h) ==
    CASE <<w, h>> \in {<<320, 480>>, <<480, 320>>} -> Some(<<"3", ".", "5">>)
      [] <<w, h>> \in {<<480, 800>>, <<800, 480>>} -> Some(<<"5">>)
      [] <<w, h>> \in {<<128, 128>>, <<160, 128>>} -> Some(<<"0", ".", "9", "6">>)
      [] OTHER                                     -> None

\* str.upper()
UpperChar(c) ==
    CASE c = "a" -> "A"
      [] c = "b" -> "B"
      [] c = "c" -> "C"
      [] OTHER   -> c
Upper(q) == [i \in 1..Len(q) |-> UpperChar(q[i])]

\* [^\"'\n#]
NotQuoteNlHash == Alphabet \ (QUOTES \cup {"\n", "#"})

\* r"^\s*REVISION\s*:\s*[\"']?([^\"'\n#]+)[\"']?"; the group is item 8
REVISION_PATTERN ==
    <<Bol, Star(WS), Lit("REVISION"), Star(WS), Lit(":"), Star(WS),
      Opt(QUOTES), Plus(NotQuoteNlHash), Opt(QUOTES)>>

\* ScreenConfig.get_display_revision
get_display_revision(f) ==
    LET content == Read(f)
        m == Search(REVISION_PATTERN, content, 1)
    IN  IF m.found
        THEN Some(Strip(SubSeq(content, m.ends[7], m.ends[8] - 1)))
        ELSE None

\* ScreenConfig.get_display_size
get_display_size(f) ==
    LET revision == get_display_revision(f)
    IN  IF revision.some /\ revision.v # << >>
        THEN REVISION_TO_SIZE(Upper(revision.v))
        ELSE None

\* r"^\s*DISPLAY_SIZE\s*:\s*[\"']?([0-9.]+)"; the group is item 8
DISPLAY_SIZE_PATTERN ==
    <<Bol, Star(WS), Lit("DISPLAY_SIZE"), Star(WS), Lit(":"), Star(WS),
      Opt(QUOTES), Plus(DIGITS \cup {"."})>>

\* r"BACKGROUND:.*?<key>\s*:\s*(\d+)" under re.DOTALL: the first <key> with
\* a colon and digits anywhere after the first `BACKGROUND:`; the digits
BackgroundField(content, key) ==
    LET b == Search(<<Lit("BACKGROUND"), Lit(":")>>, content, 1)
    IN  IF ~b.found THEN None
        ELSE LET m == Search(<<Lit(key), Star(WS), Lit(":"), Star(WS), Plus(DIGITS)>>,
                             content, b.ends[2])
             IN  IF m.found THEN Some(SubSeq(content, m.ends[4], m.ends[5] - 1))
                 ELSE None

\* ScreenConfig._get_theme_size of a directory entry
\* [is_dir, has_yaml, readable, text]
get_theme_size(d) ==
    IF ~d.has_yaml THEN None
    ELSE IF ~d.readable THEN None
    ELSE LET match == Search(DISPLAY_SIZE_PATTERN, d.text, 1)
             width_match == BackgroundField(d.text, "WIDTH")
             height_match == BackgroundField(d.text, "HEIGHT")
         IN  IF match.found
             THEN Some(SubSeq(d.text, match.ends[7], match.ends[8] - 1))
             ELSE IF width_match.some /\ height_match.some
                  THEN RESOLUTION_TO_SIZE(ToInt(width_match.v), ToInt(height_match.v))
                  ELSE None

\* the order of characters in Python's string comparison
CharOrder ==
    <<"-", "0", "1", "2", "3", "4", "5", "6", "7", "8", "9", "A", "B", "C", "_", "a", "b", "c">>
Rank(c) == CHOOSE i \in 1..Len(CharOrder) : CharOrder[i] = c

\* a < b for two strings
RECURSIVE StrLess(_, _)
StrLess(a, b) ==
    IF b = << >> THEN FALSE
    ELSE IF a = << >> THEN TRUE
    ELSE IF Head(a) = Head(b) THEN StrLess(Tail(a), Tail(b))
    ELSE Rank(Head(a)) < Rank(Head(b))

\* sorted(names)
RECURSIVE Sorted(_)
Sorted(S) ==
    IF S = {} THEN << >>
    ELSE LET least == CHOOSE x \in S : \A y \in S \ {x} : StrLess(x, y)
         IN  <<least>> \o Sorted(S \ {least})

\* d.name.startswith("--") or d.name.startswith("_")
IsSpecialName(name) ==
    \/ Len(name) >= 2 /\ name[1] = "-" /\ name[2] = "-"
    \/ Len(name) >= 1 /\ name[1] = "_"

\* ScreenConfig.get_available_themes that skips the comparison of the sizes
GetAvailableThemesUnfiltered(dir, f, filter_by_display) ==
    IF ~dir.exists THEN << >>
    ELSE Sorted({ name \in DOMAIN dir.entries :
                    LET d == dir.entries[name]
                    IN  d.is_dir /\ d.has_yaml /\ ~IsSpecialName(name) })

\* ScreenConfig.get_available_themes
get_available_themes(dir, f, filter_by_display) ==
    IF ~dir.exists THEN << >>
    ELSE LET display_size == IF filter_by_display THEN get_display_size(f) ELSE None
         IN  Sorted({ name \in DOMAIN dir.entries :
                        LET d == dir.entries[name]
                            theme_size == get_theme_size(d)
                        IN  /\ d.is_dir
                            /\ d.has_yaml
                            /\ ~IsSpecialName(name)
                            /\ ~(/\ display_size.some
                                 /\ theme_size.some
                                 /\ theme_size.v # display_size.v) })

----------------------------------------------------------------------------
\* i18n/__init__.py: I18n. A translated string is a sequence of pieces: plain
\* text, and the pieces str.format reads: "{}", "{0}", "{1}", "{name}", the
\* escapes "{{" and "}}", and a single "{" or "}".

SUPPORTED == {"pt_BR", "pt_PT", "en_US", "es_ES"}

\* a dict[str, str] without keys
NoTable == [key \in {} |-> << >>]

\* <code>.json: absent, not JSON, or a table
MissingLang == [kind |-> "missing", table |-> NoTable]
CorruptLang == [kind |-> "corrupt", table |-> NoTable]
TableLang(table) == [kind |-> "table", table |-> table]

\* I18n._load_file: {} for an absent file; json.load raises on a corrupt one
\* and the exception is not caught
load_file(files, lang_code) ==
    LET f == files[lang_code]
    IN  CASE f.kind = "missing" -> [raised |-> FALSE, table |-> NoTable]
          [] f.kind = "corrupt" -> [raised |-> TRUE, table |-> NoTable]
          [] OTHER              -> [raised |-> FALSE, table |-> f.table]

\* I18n.set_language that keeps the code it is given
SetLanguageUnchecked(obj, files, language) ==
    LET r == load_file(files, IF language \in SUPPORTED THEN language ELSE "en_US")
    IN  [raised |-> r.raised,
         obj |-> [obj EXCEPT !.lang = language,
                             !.translations = IF r.raised THEN @ ELSE r.table]]

\* I18n.set_language: _lang is assigned before the file is loaded
SetLanguage(obj, files, language) ==
    LET lang == IF language \notin SUPPORTED THEN "en_US" ELSE language
        r == load_file(files, lang)
    IN  [raised |-> r.raised,
         obj |-> [obj EXCEPT !.lang = lang,
                             !.translations = IF r.raised THEN @ ELSE r.table]]

\* I18n.__init__: _load_fallback, then set_language; no object when one raises
NewI18n(files, language) ==
    LET fb == load_file(files, "en_US")
        r == SetLanguage([live |-> TRUE, lang |-> "", translations |-> NoTable,
                          fallback |-> fb.table], files, language)
    IN  IF fb.raised \/ r.raised
        THEN [raised |-> TRUE,
              obj |-> [live |-> FALSE, lang |-> "", translations |-> NoTable,
                       fallback |-> NoTable]]
        ELSE [raised |-> FALSE, obj |-> r.obj]

\* str.format(*args) from piece i on: the pieces are read left to right and
\* the first faulty one raises. numbering is "none", "auto" or "manual"; next
\* is the index the next "{}" takes.
RECURSIVE FormatFrom(_, _, _, _, _)
FormatFrom(text, args, i, numbering, next) ==
    IF i > Len(text) THEN [raised |-> "", text |-> << >>]
    ELSE LET piece == text[i]
             Rest(out, nb, nx) ==
                LET r == FormatFrom(text, args, i + 1, nb, nx)
                IN  IF r.raised # "" THEN r
                    ELSE [raised |-> "", text |-> out \o r.text]
             Fail(exc) == [raised |-> exc, text |-> << >>]
             Manual(n) ==
                IF numbering = "auto" THEN Fail("ValueError")
                ELSE IF n >= Len(args) THEN Fail("IndexError")
                ELSE Rest(<<args[n + 1]>>, "manual", next)
         IN  CASE piece = "{}" ->
                    IF numbering = "manual" THEN Fail("ValueError")
                    ELSE IF next >= Len(args) THEN Fail("IndexError")
                    ELSE Rest(<<args[next + 1]>>, "auto", next + 1)
               [] piece = "{0}" -> Manual(0)
               [] piece = "{1}" -> Manual(1)
               [] piece = "{name}" -> Fail("KeyError")
               [] piece \in {"{", "}"} -> Fail("ValueError")
               [] piece = "{{" -> Rest(<<"{">>, numbering, next)
               [] piece = "}}" -> Rest(<<"}">>, numbering, next)
               [] OTHER -> Rest(<<piece>>, numbering, next)

Format(text, args) == FormatFrom(text, args, 1, "none", 0)

\* dict.get(key, default)
DictGet(table, key, default) == IF key \in DOMAIN table THEN table[key] ELSE default

\* I18n.t: only IndexError and KeyError are caught
T(obj, key, args) ==
    LET text == DictGet(obj.translations, key, DictGet(obj.fallback, key, <<key>>))
    IN  IF args # << >>
        THEN LET r == Format(text, args)
             IN  CASE r.raised = "" -> [raised |-> "", text |-> r.text]
                   [] r.raised \in {"IndexError", "KeyError"} -> [raised |-> "", text |-> text]
                   [] OTHER -> [raised |-> r.raised, text |-> << >>]
        ELSE [raised |-> "", text |-> text]

\* values the variables of the other specifications rest at

NoFile == [exists |-> FALSE, text |-> << >>]
NoScOp == [name |-> "none", arg |-> 0, targ |-> << >>, ret |-> FALSE,
           rint |-> 0, rstr |-> << >>, read |-> FALSE, wrote |-> FALSE]

NoTcOp == [name |-> "none", key |-> "", val |-> PyNone, done |-> FALSE]

TrayCfgIdle ==
    /\ cfgFile = MissingFile
    /\ data = NoData
    /\ tcStatus = "none"
    /\ tcOp = NoTcOp

ScreenIdle ==
    /\ yaml = NoFile
    /\ scOp = NoScOp
    /\ scPrev = NoFile

NoThemesDir == [exists |-> FALSE, entries |-> [name \in {} |-> None]]
NoThOp == [name |-> "none", filter |-> FALSE, ret |-> << >>]

ThemesIdle ==
    /\ themesDir = NoThemesDir
    /\ thOp = NoThOp

NoLangFiles == [code \in SUPPORTED |-> MissingLang]
NoI18n == [live |-> FALSE, lang |-> "", translations |-> NoTable, fallback |-> NoTable]
NoI18nOp == [name |-> "none", code |-> "", key |-> "", args |-> << >>,
             raised |-> "", text |-> << >>]

I18nIdle ==
    /\ langFiles = NoLangFiles
    /\ i18n = NoI18n
    /\ i18nOp = NoI18nOp

MainIdle ==
    /\ pc = [p \in Procs |-> "idle"]
    /\ sockPath = 0
    /\ listening = {}
    /\ tray = {}
    /\ printed = {}
    /\ exitCode = [p \in Procs |-> -1]
    /\ systemctl = TRUE
    /\ svc = [active |-> FALSE, enabled |-> FALSE]
    /\ handler = "none"
    /\ calls = << >>

----------------------------------------------------------------------------
\* Spec: the tray processes and the service

Init ==
    /\ pc = [p \in Procs |-> "idle"]
    /\ sockPath = 0
    /\ listening = {}
    /\ tray = {}
    /\ printed = {}
    /\ exitCode = [p \in Procs |-> -1]
    /\ systemctl \in BOOLEAN
    /\ svc \in [active : BOOLEAN, enabled : BOOLEAN]
    /\ handler = "none"
    /\ calls = << >>
    /\ TrayCfgIdle
    /\ ScreenIdle
    /\ ThemesIdle
    /\ I18nIdle

\* the user of the processes of Spec only quits them; the menu is SpecTray's
Next ==
    \E p \in Procs :
         \/ StartMain(p)
         \/ AlreadyRunning(p)
         \/ NotRunning(p)
         \/ RemoveServer(p)
         \/ Listen(p)
         \/ CreateTray(p)
         \/ quit_app(p)
         \/ ServerClose(p)
         \/ Sigint(p)

Spec == Init /\ [][Next]_vars

----------------------------------------------------------------------------
\* SpecTray: one tray process from start to exit, and its menu

TrayProc == CHOOSE p \in Procs : \A q \in Procs : p <= q

\* main() of TrayProc has bound the socket and is about to build its tray
InitTray ==
    /\ pc = [p \in Procs |-> IF p = TrayProc THEN "tray" ELSE "idle"]
    /\ sockPath = TrayProc
    /\ listening = {TrayProc}
    /\ tray = {}
    /\ printed = {}
    /\ exitCode = [p \in Procs |-> -1]
    /\ systemctl \in BOOLEAN
    /\ svc \in [active : BOOLEAN, enabled : BOOLEAN]
    /\ handler = "none"
    /\ calls = << >>
    /\ TrayCfgIdle
    /\ ScreenIdle
    /\ ThemesIdle
    /\ I18nIdle

NextTray ==
    \/ CreateTray(TrayProc)
    \/ start_display(TrayProc)
    \/ stop_display(TrayProc)
    \/ restart_display(TrayProc)
    \/ toggle_autostart(TrayProc)
    \/ \E reason \in ActivationReasons : on_activated(TrayProc, reason)
    \/ update_status(TrayProc)
    \/ quit_app(TrayProc)
    \/ ServerClose(TrayProc)
    \/ Sigint(TrayProc)

SpecTray == InitTray /\ [][NextTray]_vars

----------------------------------------------------------------------------
\* SpecTrayConfig: a TrayConfig over a tray.json of any content

KnownKeys == {"language", "show_notifications", "check_updates", "poll_interval"}

\* keys a tray.json may hold: the known ones and one the tray does not know
FileKeys == KnownKeys \cup {"theme"}

\* values a tray.json may hold
FileValues == {JString("es_ES"), JFalse, JNumber(10)}

\* most members an initial tray.json object holds
MaxFileKeys == 1

\* most items an initial tray.json array holds
MaxItems == 2

FileItems ==
    { [pair |-> TRUE, k |-> "language", v |-> JString("es_ES")],
      [pair |-> TRUE, k |-> "theme", v |-> JNumber(10)],
      [pair |-> FALSE, k |-> "", v |-> JNumber(10)] }

RECURSIVE SeqsUpTo(_, _)
SeqsUpTo(S, n) ==
    IF n = 0 THEN { << >> }
    ELSE LET shorter == SeqsUpTo(S, n - 1)
         IN  shorter \cup { Append(q, x) : q \in shorter, x \in S }

InitFiles ==
    {MissingFile, UnreadableFile, NotUtf8File, GarbageFile}
    \cup { ObjectFile(m) :
             m \in UNION { [K -> FileValues] :
                             K \in { K \in SUBSET FileKeys : Cardinality(K) <= MaxFileKeys } } }
    \cup { ObjectFile(Dump(DEFAULTS).members) }
    \cup { ArrayFile(items) : items \in SeqsUpTo(FileItems, MaxItems) }
    \cup { ScalarFile(x) : x \in {JString(""), JString("abc"), JNumber(10), JNull, JTrue} }

\* the set() calls of the tray (set_language, SettingsDialog._save), and one
\* with a key of the caller's own
SetArgs ==
    { <<"language", PyStr("en_US")>>,
      <<"show_notifications", PyBool(FALSE)>>,
      <<"check_updates", PyBool(FALSE)>>,
      <<"poll_interval", PyInt(2)>>,
      <<"theme", PyStr("en_US")>> }

\* TrayConfig(): __init__ and _load
Construct ==
    /\ LET r == Load(cfgFile)
       IN  /\ tcStatus' = IF r.raised THEN "failed" ELSE "live"
           /\ data' = IF r.raised THEN NoData ELSE r.data
           /\ tcOp' = [name |-> "init", key |-> "", val |-> PyNone, done |-> ~r.raised]
    /\ UNCHANGED <<cfgFile, mainVars, screenVars, themeVars, i18nVars>>

\* TrayConfig.set(key, value): assign, then save
Set(k, v) ==
    /\ tcStatus = "live"
    /\ \E out \in SaveOutcomes :
         /\ data' = SetItem(data, k, v)
         /\ cfgFile' = Save(data', cfgFile, out)
         /\ tcOp' = [name |-> "set", key |-> k, val |-> v, done |-> out = "ok"]
    /\ UNCHANGED <<tcStatus, mainVars, screenVars, themeVars, i18nVars>>

\* TrayConfig.reset(): back to DEFAULTS, then save
Reset ==
    /\ tcStatus = "live"
    /\ \E out \in SaveOutcomes :
         /\ data' = DEFAULTS
         /\ cfgFile' = Save(data', cfgFile, out)
         /\ tcOp' = [name |-> "reset", key |-> "", val |-> PyNone, done |-> out = "ok"]
    /\ UNCHANGED <<tcStatus, mainVars, screenVars, themeVars, i18nVars>>

InitTrayConfig ==
    /\ cfgFile \in InitFiles
    /\ data = NoData
    /\ tcStatus = "none"
    /\ tcOp = NoTcOp
    /\ MainIdle
    /\ ScreenIdle
    /\ ThemesIdle
    /\ I18nIdle

NextTrayConfig ==
    \/ Construct
    \/ \E a \in SetArgs : Set(a[1], a[2])
    \/ Reset

SpecTrayConfig == InitTrayConfig /\ [][NextTrayConfig]_vars

----------------------------------------------------------------------------
\* SpecScreenConfig: a ScreenConfig over a config.yaml of any content

\* most lines an initial config.yaml holds
MaxLines == 2

\* largest value set_orientation is called with (the smallest is -1)
MaxOrientArg == 4

\* lines a config.yaml may hold
LineShapes ==
    { << >>,
      <<"BRIGHTNESS", ":", " ", "2", "0">>,
      <<"DISPLAY_ORIENTATION", ":", " ", "2">>,
      <<" ", "DISPLAY_ORIENTATION", " ", ":", "0", "7", " ", "#", "c">>,
      <<"DISPLAY_ORIENTATION", ":", " ", "\"", "2", "\"">>,
      <<"DISPLAY_ORIENTATION", ":">>,
      <<"#", "DISPLAY_ORIENTATION", ":", " ", "1">>,
      <<"THEME", ":", " ", "a">>,
      <<" ", "THEME", ":", " ", "'", "a", " ", "b", "'", " ">>,
      <<"THEME", ":", " ", "a", " ", "#", "c">>,
      <<"THEME", ":", " ", "\"", "a", "\"", " ", "#", "c">>,
      <<"THEME", ":">> }

\* "\n".join(lines)
RECURSIVE Join(_)
Join(lines) ==
    IF lines = << >> THEN << >>
    ELSE IF Len(lines) = 1 THEN lines[1]
    ELSE lines[1] \o <<"\n">> \o Join(Tail(lines))

\* the initial files: absent, or up to MaxLines lines, the last with or
\* without its newline
InitYamls ==
    { [exists |-> FALSE, text |-> << >>] }
    \cup { [exists |-> TRUE, text |-> Join(ls) \o nl] :
             ls \in SeqsUpTo(LineShapes, MaxLines), nl \in { << >>, <<"\n">> } }

\* theme directory names
ThemeNames == { <<"b">>, <<"3", "b">>, <<"b", " ", "c">> }

\* a call of get_orientation()
GetOrientation ==
    /\ scOp.name = "none"
    /\ scOp' = [name |-> "get_orientation", arg |-> 0, targ |-> << >>,
                ret |-> TRUE, rint |-> get_orientation(yaml), rstr |-> << >>,
                read |-> TRUE, wrote |-> FALSE]
    /\ scPrev' = yaml
    /\ UNCHANGED <<yaml, mainVars, trayCfgVars, themeVars, i18nVars>>

\* a call of set_orientation(value)
set_orientation(value) ==
    /\ scOp.name = "none"
    /\ LET r == SetOrientation(yaml, value)
       IN  /\ yaml' = r.file
           /\ scOp' = [name |-> "set_orientation", arg |-> value, targ |-> << >>,
                       ret |-> r.ret, rint |-> 0, rstr |-> << >>,
                       read |-> r.read, wrote |-> r.wrote]
    /\ scPrev' = yaml
    /\ UNCHANGED <<mainVars, trayCfgVars, themeVars, i18nVars>>

\* a call of get_current_theme()
GetCurrentTheme ==
    /\ scOp.name = "none"
    /\ LET r == get_current_theme(yaml)
       IN  scOp' = [name |-> "get_current_theme", arg |-> 0, targ |-> << >>,
                    ret |-> r.some, rint |-> 0, rstr |-> r.name,
                    read |-> TRUE, wrote |-> FALSE]
    /\ scPrev' = yaml
    /\ UNCHANGED <<yaml, mainVars, trayCfgVars, themeVars, i18nVars>>

\* a call of set_theme(theme_name)
set_theme(theme_name) ==
    /\ scOp.name = "none"
    /\ LET r == SetTheme(yaml, theme_name)
       IN  /\ yaml' = r.file
           /\ scOp' = [name |-> "set_theme", arg |-> 0, targ |-> theme_name,
                       ret |-> r.ret, rint |-> 0, rstr |-> << >>,
                       read |-> r.read, wrote |-> r.wrote]
    /\ scPrev' = yaml
    /\ UNCHANGED <<mainVars, trayCfgVars, themeVars, i18nVars>>

\* the caller has the result; the next call may start
Returned ==
    /\ scOp.name # "none"
    /\ scOp' = NoScOp
    /\ scPrev' = yaml
    /\ UNCHANGED <<yaml, mainVars, trayCfgVars, themeVars, i18nVars>>

InitScreenConfig ==
    /\ yaml \in InitYamls
    /\ scOp = NoScOp
    /\ scPrev = yaml
    /\ MainIdle
    /\ TrayCfgIdle
    /\ ThemesIdle
    /\ I18nIdle

NextScreenConfig ==
    \/ GetOrientation
    \/ \E value \in -1..MaxOrientArg : set_orientation(value)
    \/ GetCurrentTheme
    \/ \E theme_name \in ThemeNames : set_theme(theme_name)
    \/ Returned

SpecScreenConfig == InitScreenConfig /\ [][NextScreenConfig]_vars

----------------------------------------------------------------------------
\* SpecThemes: get_available_themes over a themes directory and a config.yaml
\* of any content

\* most entries the themes directory holds
MaxThemes == 2

\* names of the entries of res/themes
DirNames == { <<"a">>, <<"b">>, <<"_", "a">>, <<"-", "-", "a">> }

\* theme.yaml files
ThemeYamls ==
    { <<"a", ":", " ", "b">>,
      <<"a", ":", "\n", " ", "DISPLAY_SIZE", ":", " ", "3", ".", "5", "\"">>,
      <<"DISPLAY_SIZE", ":", " ", "5", "\"">>,
      <<"BACKGROUND", ":", "\n", " ", "WIDTH", ":", " ", "4", "8", "0", "\n",
        " ", "HEIGHT", ":", " ", "3", "2", "0">>,
      <<"BACKGROUND", ":", "\n", " ", "WIDTH", ":", " ", "6", "4", "0", "\n",
        " ", "HEIGHT", ":", " ", "4", "8", "0">> }

\* what an entry of res/themes may be: a plain file, a directory without
\* theme.yaml, one whose theme.yaml cannot be read, one with a theme.yaml
DirEntries ==
    { [is_dir |-> FALSE, has_yaml |-> FALSE, readable |-> FALSE, text |-> << >>],
      [is_dir |-> TRUE, has_yaml |-> FALSE, readable |-> FALSE, text |-> << >>],
      [is_dir |-> TRUE, has_yaml |-> TRUE, readable |-> FALSE, text |-> << >>] }
    \cup { [is_dir |-> TRUE, has_yaml |-> TRUE, readable |-> TRUE, text |-> t] :
             t \in ThemeYamls }

ThemesDirs ==
    { NoThemesDir }
    \cup { [exists |-> TRUE, entries |-> e] :
             e \in UNION { [N -> DirEntries] :
                             N \in { N \in SUBSET DirNames : Cardinality(N) <= MaxThemes } } }

\* config.yaml files, for their REVISION
RevisionYamls ==
    { NoFile }
    \cup { [exists |-> TRUE, text |-> t] :
             t \in { <<"BRIGHTNESS", ":", " ", "2", "0">>,
                     <<"REVISION", ":", " ", "A">>,
                     <<"a", ":", "\n", " ", "REVISION", ":", " ", "\"", "c", "\"", " ", "#", "a">>,
                     <<"REVISION", ":", " ", "C", " ", "#", "a", "\n">>,
                     <<"REVISION", ":", " ", "WEACT_B", "\n">>,
                     <<"REVISION", ":", " ", "SIMU">>,
                     <<"REVISION", ":", " ", "Z">>,
                     <<"REVISION", ":", "\n", "THEME", ":", " ", "a">> } }

\* a call of get_available_themes(filter_by_display)
GetAvailableThemes(filter_by_display) ==
    /\ thOp' = [name |-> "get_available_themes", filter |-> filter_by_display,
                ret |-> get_available_themes(themesDir, yaml, filter_by_display)]
    /\ UNCHANGED <<themesDir, mainVars, trayCfgVars, screenVars, i18nVars>>

InitThemes ==
    /\ themesDir \in ThemesDirs
    /\ thOp = NoThOp
    /\ yaml \in RevisionYamls
    /\ scOp = NoScOp
    /\ scPrev = NoFile
    /\ MainIdle
    /\ TrayCfgIdle
    /\ I18nIdle

NextThemes ==
    \E filter_by_display \in BOOLEAN : GetAvailableThemes(filter_by_display)

SpecThemes == InitThemes /\ [][NextThemes]_vars

----------------------------------------------------------------------------
\* SpecI18n: an I18n over language files of any content

\* tables a language file may hold
LangTables ==
    { [key \in {"k", "m", "n", "l"} |->
         CASE key = "k" -> <<"Hi ", "{}">>
           [] key = "m" -> <<"{0}", "{1}">>
           [] key = "n" -> <<"{name}", "{{", "}}">>
           [] OTHER     -> <<"100% ", "{">>],
      [key \in {"k", "o"} |->
         IF key = "k" THEN <<"Oi ", "{0}", "{{", "}}">> ELSE <<"{}", "{0}">>] }

LangFileStates == {MissingLang, CorruptLang} \cup { TableLang(tb) : tb \in LangTables }

\* codes I18n is constructed and set with
LanguageCodes == SUPPORTED \cup {"fr_FR", "pt_br", ""}

\* keys and arguments t is called with
TKeys == {"k", "m", "n", "l", "o", "z"}
TArgs == { << >>, <<"X">>, <<"X", "Y">> }

\* I18n(language)
I18nInit(language) ==
    /\ ~i18n.live
    /\ LET r == NewI18n(langFiles, language)
       IN  /\ i18n' = r.obj
           /\ i18nOp' = [name |-> "init", code |-> language, key |-> "", args |-> << >>,
                         raised |-> IF r.raised THEN "JSONDecodeError" ELSE "",
                         text |-> << >>]
    /\ UNCHANGED <<langFiles, mainVars, trayCfgVars, screenVars, themeVars>>

\* a call of set_language(language)
set_language(language) ==
    /\ i18n.live
    /\ LET r == SetLanguage(i18n, langFiles, language)
       IN  /\ i18n' = r.obj
           /\ i18nOp' = [name |-> "set_language", code |-> language, key |-> "",
                         args |-> << >>,
                         raised |-> IF r.raised THEN "JSONDecodeError" ELSE "",
                         text |-> << >>]
    /\ UNCHANGED <<langFiles, mainVars, trayCfgVars, screenVars, themeVars>>

\* a call of t(key, *args)
TCall(key, args) ==
    /\ i18n.live
    /\ LET r == T(i18n, key, args)
       IN  i18nOp' = [name |-> "t", code |-> "", key |-> key, args |-> args,
                      raised |-> r.raised, text |-> r.text]
    /\ UNCHANGED <<langFiles, i18n, mainVars, trayCfgVars, screenVars, themeVars>>

InitI18n ==
    /\ langFiles \in [SUPPORTED -> LangFileStates]
    /\ i18n = NoI18n
    /\ i18nOp = NoI18nOp
    /\ MainIdle
    /\ TrayCfgIdle
    /\ ScreenIdle
    /\ ThemesIdle

NextI18n ==
    \/ \E language \in LanguageCodes : I18nInit(language)
    \/ \E language \in LanguageCodes : set_language(language)
    \/ \E key \in TKeys, args \in TArgs : TCall(key, args)

SpecI18n == InitI18n /\ [][NextI18n]_vars

----------------------------------------------------------------------------
\* C1: duplicate instances are prevented: whatever the interleaving of the
\* startups, at most one process at a time has created and shown a TuringTray.
C1_AtMostOneTray == Cardinality(tray) <= 1

\* C2: quitting the tray does not stop the display service: the step that runs
\* quit_app issues no systemctl command and leaves the unit's active and
\* enabled states as they were.
C2_QuitKeepsService ==
    [][(\E p \in Procs : pc[p] = "running" /\ pc'[p] = "closing")
        => (svc' = svc /\ calls' = << >>)]_vars

\* a tray has quit (its process is about to close the server) and the service
\* is still active
C2_Witness ==
    /\ \E p \in Procs : pc[p] = "closing"
    /\ handler = "quit_app"
    /\ svc.active

\* C3: each ServiceManager operation runs at most one systemctl command and
\* returns True exactly when that command was run and exited with code 0; no
\* exception escapes (systemctl not found, non-zero exit, timeout, spawn failure
\* all give False).
C3_ServiceCalls ==
    \A i \in 1..Len(calls) :
        /\ calls[i].ncmd \in {0, 1}
        /\ ~calls[i].raised
        /\ calls[i].ret = (calls[i].ncmd = 1 /\ calls[i].kind = "exit" /\ calls[i].rc = 0)
        /\ calls[i].kind \in {"notfound", "timeout", "oserror"} => ~calls[i].ret
        /\ (calls[i].kind = "exit" /\ calls[i].rc # 0) => ~calls[i].ret

\* one handler made a call that succeeded and a call that timed out
C3_Witness ==
    /\ \E i \in 1..Len(calls) : calls[i].ret /\ calls[i].verb \in LifecycleVerbs
    /\ \E i \in 1..Len(calls) : calls[i].kind = "timeout" /\ ~calls[i].ret

\* C4: preferences are persisted on every mutation: after a set or reset that
\* completed, a newly constructed TrayConfig reading tray.json loads, key by
\* key, the record in memory (the value just set; DEFAULTS after a reset).
C4_PersistedOnMutation ==
    (tcOp.name \in {"set", "reset"} /\ tcOp.done) =>
        LET fresh == Load(cfgFile)
        IN  /\ ~fresh.raised
            /\ DOMAIN fresh.data = DOMAIN data
            /\ \A k \in DOMAIN data : fresh.data[k] = data[k]
            /\ tcOp.name = "set" => fresh.data[tcOp.key] = tcOp.val
            /\ tcOp.name = "reset" => fresh.data = DEFAULTS

\* a set of a boolean completed on a record that differs from DEFAULTS in
\* another key as well
C4_Witness ==
    /\ tcOp.name = "set" /\ tcOp.done
    /\ tcOp.key = "show_notifications"
    /\ data["language"] # DEFAULTS["language"]
    /\ data["show_notifications"] = PyBool(FALSE)

\* the files C5 calls corrupt: there but not readable, not valid JSON, or
\* valid JSON that is no object
Corrupt(f) ==
    \/ f.kind \in {"unreadable", "notutf8", "garbage"}
    \/ f.kind = "json" /\ f.top.j # "object"

\* C5: defaults are kept on a corrupt preferences file: constructing a
\* TrayConfig over such a file raises nothing and the record equals DEFAULTS.
C5_DefaultsOnCorrupt ==
    (tcOp.name = "init" /\ Corrupt(cfgFile)) =>
        (tcOp.done /\ tcStatus = "live" /\ data = DEFAULTS)

\* C6, as claimed: every key of a TrayConfig's record is one of the four known
\* keys, and all four are present.
C6_KnownKeysOnly ==
    tcStatus = "live" => DOMAIN data = KnownKeys

\* C6, amended: the four known keys are present in every TrayConfig's record
\* (which may hold other keys too).
C6_KnownKeysPresent ==
    tcStatus = "live" => KnownKeys \subseteq DOMAIN data

\* a record holding a key the tray does not know, after a reset and a set
C6_Witness ==
    /\ tcStatus = "live"
    /\ tcOp.name = "set"
    /\ "theme" \in DOMAIN data
    /\ KnownKeys \subseteq DOMAIN data

\* the lines of a text
RECURSIVE SplitLines(_)
SplitLines(txt) ==
    IF \A i \in 1..Len(txt) : txt[i] # "\n" THEN <<txt>>
    ELSE LET i == CHOOSE i \in 1..Len(txt) :
                     txt[i] = "\n" /\ \A j \in 1..(i - 1) : txt[j] # "\n"
         IN  <<SubSeq(txt, 1, i - 1)>> \o SplitLines(SubSeq(txt, i + 1, Len(txt)))

BLANK == {" ", "\t"}

\* a line `DISPLAY_ORIENTATION: <digits>...`, indented or not
IsOrientationLine(line) ==
    MatchAt(<<Star(BLANK), Lit("DISPLAY_ORIENTATION"), Star(BLANK), Lit(":"),
              Star(BLANK), Plus(DIGITS)>>, line, 1, 1).ok

\* a line `THEME: <value>...`, the value quoted or not
IsThemeLine(line) ==
    MatchAt(<<Star(BLANK), Lit("THEME"), Star(BLANK), Lit(":"), Star(BLANK),
              Plus(Alphabet \ (WS \cup {"#"}))>>, line, 1, 1).ok

HasOrientationLine(f) ==
    f.exists /\ \E i \in 1..Len(SplitLines(f.text)) : IsOrientationLine(SplitLines(f.text)[i])

HasThemeLine(f) ==
    f.exists /\ \E i \in 1..Len(SplitLines(f.text)) : IsThemeLine(SplitLines(f.text)[i])

\* C7: set_orientation accepts only 0, 1, 2, 3: for any other value it returns
\* False and config.yaml is neither read nor written, its content unchanged.
C7_RejectsOtherValues ==
    (scOp.name = "set_orientation" /\ scOp.arg \notin {0, 1, 2, 3}) =>
        (~scOp.ret /\ ~scOp.read /\ ~scOp.wrote /\ yaml = scPrev)

\* set_orientation(-1) was refused on a file that has an orientation line
C7_Witness ==
    /\ scOp.name = "set_orientation"
    /\ scOp.arg = -1
    /\ HasOrientationLine(scPrev)
    /\ ~scOp.ret

\* C8: get_orientation returns one of 0, 1, 2, 3 for every content of
\* config.yaml, and 0 when the file is missing or has no DISPLAY_ORIENTATION
\* line.
C8_OrientationInEnum ==
    scOp.name = "get_orientation" =>
        /\ scOp.rint \in {0, 1, 2, 3}
        /\ (~scPrev.exists \/ \A i \in 1..Len(scPrev.text) : scPrev.text[i] # "DISPLAY_ORIENTATION")
              => scOp.rint = 0

\* C9: for v in 0..3 and a config.yaml with a DISPLAY_ORIENTATION line of a
\* numeric value, set_orientation(v) returns True, a following
\* get_orientation() returns v, and a second set_orientation(v) leaves the
\* file as the first left it.
C9_OrientationRoundTrip ==
    (scOp.name = "set_orientation" /\ scOp.arg \in {0, 1, 2, 3} /\ HasOrientationLine(scPrev)) =>
        /\ scOp.ret
        /\ get_orientation(yaml) = scOp.arg
        /\ SetOrientation(yaml, scOp.arg).ret
        /\ SetOrientation(yaml, scOp.arg).file = yaml

\* set_orientation(3) rewrote a file whose orientation line, not the first
\* line of the file, held another value
C9_Witness ==
    /\ scOp.name = "set_orientation"
    /\ scOp.arg = 3
    /\ HasOrientationLine(scPrev)
    /\ ~IsOrientationLine(SplitLines(scPrev.text)[1])
    /\ get_orientation(scPrev) = 7
    /\ yaml # scPrev
    /\ get_orientation(yaml) = 3

\* C10: for every theme name and every config.yaml with a THEME line that has
\* a value (quoted, unquoted or followed by a comment), set_theme(name) returns
\* True and a following get_current_theme() returns exactly name.
C10_ThemeRoundTrip ==
    (scOp.name = "set_theme" /\ HasThemeLine(scPrev)) =>
        /\ scOp.ret
        /\ get_current_theme(yaml) = [some |-> TRUE, name |-> scOp.targ]

\* a line that carries the field `key`: optional blanks, the key, optional
\* blanks, a colon
IsFieldLine(key, line) ==
    MatchAt(<<Star(BLANK), Lit(key), Star(BLANK), Lit(":")>>, line, 1, 1).ok

\* the field a ScreenConfig setter edits
FieldOf(name) == IF name = "set_theme" THEN "THEME" ELSE "DISPLAY_ORIENTATION"

\* C11: editing does not reformat config.yaml: after a set_theme or
\* set_orientation that returned True the file has as many lines as before,
\* in the same order, and every line that does not carry the edited field
\* (other keys, comments, blank lines) is what it was.
C11_OnlyFieldChanges ==
    (scOp.name \in {"set_theme", "set_orientation"} /\ scOp.ret) =>
        LET before == SplitLines(scPrev.text)
            after == SplitLines(yaml.text)
        IN  /\ Len(after) = Len(before)
            /\ \A i \in 1..Len(before) :
                 ~IsFieldLine(FieldOf(scOp.name), before[i]) => after[i] = before[i]

\* the themes a get_available_themes call returned
ReturnedThemes == { thOp.ret[i] : i \in 1..Len(thOp.ret) }

TableString(key) ==
    IF key \in DOMAIN i18n.translations THEN i18n.translations[key]
    ELSE IF key \in DOMAIN i18n.fallback THEN i18n.fallback[key]
    ELSE <<key>>

\* C13: t(key) returns the string of the active language's table for key, else
\* the en_US fallback's, else the key itself; with positional arguments it
\* returns that string formatted with them, and the unformatted string when
\* formatting fails; it never raises.
C13_Translate ==
    i18nOp.name = "t" =>
        LET text == TableString(i18nOp.key)
            formatted == Format(text, i18nOp.args)
        IN  /\ i18nOp.raised = ""
            /\ i18nOp.text = IF i18nOp.args # << >> /\ formatted.raised = ""
                             THEN formatted.text
                             ELSE text

\* C14: the language of an I18n object is always one of the SUPPORTED codes:
\* after construction and after every set_language call it is the code given
\* when that code is supported, and en_US when it is not.
C14_LanguageSupported ==
    i18n.live =>
        /\ i18n.lang \in SUPPORTED
        /\ i18nOp.name \in {"init", "set_language"} =>
             i18n.lang = IF i18nOp.code \in SUPPORTED THEN i18nOp.code ELSE "en_US"

\* set_language was called with a code that differs from a supported one in
\* case only, on an object whose tables are not empty
C14_Witness ==
    /\ i18n.live
    /\ i18nOp.name = "set_language"
    /\ i18nOp.code = "pt_br"
    /\ i18n.lang = "en_US"
    /\ i18n.translations # NoTable

\* the start/stop/restart/enable/disable calls among the calls of the last handler
LifecycleCalls == SelectSeq(calls, LAMBDA c : c.verb \in LifecycleVerbs)

\* C15: a middle click toggles the display: the handler asks is_active and
\* then issues exactly one service command, stop when is_active reported the
\* service active and start otherwise; an activation for any other reason
\* issues no service command.
C15_MiddleClickToggles ==
    /\ handler = "_on_activated(MiddleClick)" =>
         /\ Len(calls) >= 1
         /\ calls[1].verb = "is-active"
         /\ Len(LifecycleCalls) = 1
         /\ LifecycleCalls[1].verb = IF calls[1].ret THEN "stop" ELSE "start"
         /\ LifecycleCalls[1].unit = SERVICE_NAME
    /\ \A reason \in ActivationReasons \ {"MiddleClick"} :
         handler = "_on_activated(" \o reason \o ")" => calls = << >>

\* a middle click on an active service whose is_active query timed out: the
\* report was "not active", start was issued and it ran
C15_Witness ==
    /\ handler = "_on_activated(MiddleClick)"
    /\ calls[1].kind = "timeout"
    /\ LifecycleCalls[1].verb = "start"
    /\ LifecycleCalls[1].ncmd = 1
    /\ svc.active

====
